---- MODULE Spec2Model ----
(***************************************************************************)
(* Weather-alert enrichment Lambda: lambda_handler (lambda_function.py)    *)
(* and integrate_weather_alerts / fetch_nws_alerts / match_alerts_to_cwa / *)
(* is_alert_active / get_severity_score (weather_integration.py).          *)
(*                                                                         *)
(* Text is modelled as a sequence of one-character strings so that         *)
(* str.upper, str.split, slicing and the substring test `a in b` are       *)
(* computed, not assumed.  Python values that live in a dict or a          *)
(* DataFrame cell are tagged records (PyNone, NaN, PyStr, PyLabel, PyInt,  *)
(* PyBool), so that None, NaN, '' and the text 'None' stay distinct.       *)
(***************************************************************************)
EXTENDS Integers, Sequences, FiniteSets, TLC

VARIABLES
  \* ---- lambda_handler / integrate_weather_alerts (specification Spec)
  pc,            \* position in lambda_handler / integrate_weather_alerts
  tmpInput,      \* /tmp/input_data.csv: NoFile or the table it holds
  tmpOutput,     \* /tmp/output_data.csv: NoFile or the table it holds
  s3Output,      \* destination object: NoFile or the table uploaded
  uploaded,      \* upload_file returned in this invocation
  response,      \* statusCode returned by this invocation (0: none yet)
  df_main,       \* integrate_weather_alerts: the loaded table
  cwa_column,    \* integrate_weather_alerts: the chosen office column
  cwa_order,     \* iteration order of cwa_offices_set in this process
  alerts,        \* integrate_weather_alerts: result of fetch_nws_alerts
  fetchStatus,   \* "none" | "ok" | "http_error" | "exception"
  matched_alerts,\* integrate_weather_alerts: result of the matcher
  matcherRan,    \* match_alerts_to_cwa was called in this invocation
  df_enhanced,   \* integrate_weather_alerts: the table being built
  success,       \* return value of integrate_weather_alerts ("none" before)
  \* ---- match_alerts_to_cwa alone (specification SpecMatch)
  m_props,       \* the alert's properties
  m_codes,       \* cwa_offices_set
  m_order,       \* its iteration order in execution 1 and in execution 2
  m_result,      \* outcome of execution 1 and of execution 2
  m_pc,
  \* ---- is_alert_active alone (specification SpecActive)
  a_props, a_now, a_result, a_pc

vars == <<pc, tmpInput, tmpOutput, s3Output, uploaded, response,
          df_main, cwa_column, cwa_order, alerts, fetchStatus, matched_alerts,
          matcherRan, df_enhanced, success,
          m_props, m_codes, m_order, m_result, m_pc,
          a_props, a_now, a_result, a_pc>>

hvars == <<pc, tmpInput, tmpOutput, s3Output, uploaded, response,
           df_main, cwa_column, cwa_order, alerts, fetchStatus, matched_alerts,
           matcherRan, df_enhanced, success>>
mvars == <<m_props, m_codes, m_order, m_result, m_pc>>
avars == <<a_props, a_now, a_result, a_pc>>

-----------------------------------------------------------------------------
(* Bounds of the model *)

MaxRows == 2
MaxAlerts == 2
MaxTime == 2

-----------------------------------------------------------------------------
(* Text *)

LowerCase ==
  <<"a","b","c","d","e","f","g","h","i","j","k","l","m",
    "n","o","p","q","r","s","t","u","v","w","x","y","z">>
UpperCase ==
  <<"A","B","C","D","E","F","G","H","I","J","K","L","M",
    "N","O","P","Q","R","S","T","U","V","W","X","Y","Z">>
Digits == {"0","1","2","3","4","5","6","7","8","9"}

Range(s) == {s[i] : i \in 1..Len(s)}
Letters == Range(LowerCase) \cup Range(UpperCase)

MinOf(S) == CHOOSE x \in S : \A y \in S : x <= y
MaxOf(S) == CHOOSE x \in S : \A y \in S : y <= x

\* str.upper(), one character
UpperChar(c) ==
  IF c \in Range(LowerCase)
  THEN UpperCase[CHOOSE i \in 1..Len(LowerCase) : LowerCase[i] = c]
  ELSE c

\* str.upper()
Upper(s) == [i \in 1..Len(s) |-> UpperChar(s[i])]

\* `needle in hay` for two str
Contains(hay, needle) ==
  \E i \in 0..(Len(hay) - Len(needle)) :
    SubSeq(hay, i + 1, i + Len(needle)) = needle

\* str.split(sep) for a one-character separator
RECURSIVE Split(_, _)
Split(s, sep) ==
  LET hits == {i \in 1..Len(s) : s[i] = sep}
  IN IF hits = {} THEN <<s>>
     ELSE LET i == MinOf(hits)
          IN <<SubSeq(s, 1, i - 1)>> \o Split(SubSeq(s, i + 1, Len(s)), sep)

\* str.replace(old, new) for a one-character old
RECURSIVE Replace(_, _, _)
Replace(s, old, new) ==
  IF s = <<>> THEN <<>>
  ELSE (IF Head(s) = old THEN new ELSE <<Head(s)>>) \o Replace(Tail(s), old, new)

\* '; '.join(list)
RECURSIVE Join(_, _)
Join(list, sep) ==
  IF list = <<>> THEN <<>>
  ELSE IF Len(list) = 1 THEN list[1]
  ELSE list[1] \o sep \o Join(Tail(list), sep)

-----------------------------------------------------------------------------
(* Python values *)

PyNone == [t |-> "None"]
NaN == [t |-> "NaN"]
PyStr(s) == [t |-> "str", v |-> s]        \* free text, s a sequence of characters
PyLabel(l) == [t |-> "label", v |-> l]    \* an enumerated string, never inspected by character
PyInt(n) == [t |-> "int", v |-> n]
PyBool(b) == [t |-> "bool", v |-> b]
PyList(l) == [t |-> "list", v |-> l]

\* `x if x else None` for a str
StrOrNone(s) == IF s # <<>> THEN PyStr(s) ELSE PyNone
\* `x if x else None` for an enumerated string ("" when absent or empty)
LabelOrNone(l) == IF l # "" THEN PyLabel(l) ELSE PyNone

\* Office codes used by the inputs
LOX == <<"L","O","X">>
MTR == <<"M","T","R">>
SLC == <<"S","L","C">>
lox == <<"l","o","x">>

-----------------------------------------------------------------------------
(* get_severity_score *)

get_severity_score(severity) ==
  CASE severity = "Extreme" -> 4
    [] severity = "Severe" -> 3
    [] severity = "Moderate" -> 2
    [] severity = "Minor" -> 1
    [] severity = "Unknown" -> 0
    [] severity = "" -> 0
    [] OTHER -> 0

-----------------------------------------------------------------------------
(* is_alert_active.  A timestamp field is absent (or empty), malformed, or  *)
(* parses to a datetime that is naive or carries a UTC offset; t is its     *)
(* instant.  datetime.now() is naive.                                       *)

TsAbsent == [k |-> "absent"]
TsBad == [k |-> "malformed"]
TsNaive(t) == [k |-> "naive", t |-> t]
TsAware(t) == [k |-> "aware", t |-> t]

\* pd.to_datetime(x).to_pydatetime(): raises on a malformed value
ParseRaises(ts) == ts.k = "malformed"

\* a <= b on two datetimes raises TypeError when exactly one carries an offset
CompareRaises(a, b) == (a.k = "aware") # (b.k = "aware")

\* effective_dt <= now <= expires_dt, with Python's short-circuit chaining:
\* "raise", TRUE or FALSE
ChainedCompare(eff, now, exp) ==
  IF CompareRaises(eff, now) THEN "raise"
  ELSE IF ~(eff.t <= now.t) THEN "false"
  ELSE IF CompareRaises(now, exp) THEN "raise"
  ELSE IF now.t <= exp.t THEN "true" ELSE "false"

is_alert_active(props, now) ==
  IF props.status # "Actual" THEN FALSE
  ELSE IF props.effective.k # "absent" /\ props.expires.k # "absent"
       THEN IF ParseRaises(props.effective) \/ ParseRaises(props.expires)
            THEN FALSE                                  \* except: return False
            ELSE LET c == ChainedCompare(props.effective, TsNaive(now), props.expires)
                 IN IF c = "raise" THEN FALSE           \* except: return False
                    ELSE c = "true"
       ELSE TRUE

-----------------------------------------------------------------------------
(* match_alerts_to_cwa.  An alert's properties are a record:                *)
(*   id, headline, description, instruction : text (<<>> when absent/empty) *)
(*   affectedZones : sequence of URLs (<<>> when absent)                     *)
(*   areaDesc : PyStr(text) (PyStr(<<>>) when absent) or PyList(texts)       *)
(*   event, severity, urgency, certainty, status, messageType : enumerated  *)
(*     strings ("" when absent or empty)                                     *)
(*   effective, expires : timestamps                                         *)

NoOffice == <<>>          \* alert_office = None

\* for part in id_parts: if len(part) == 3 and part.upper() in cwa_offices_set
FirstIdPart(id_parts, codes) ==
  LET hits == {i \in 1..Len(id_parts) :
                 Len(id_parts[i]) = 3 /\ Upper(id_parts[i]) \in codes}
  IN IF hits = {} THEN NoOffice ELSE Upper(id_parts[MinOf(hits)])

\* Strategy 1: Alert ID matching
Strategy1(props, codes) ==
  IF props.id = <<>> THEN NoOffice ELSE FirstIdPart(Split(props.id, "-"), codes)

\* ([A-Z]{2,3})[CZ]?\d+ matched at position p of url, case-insensitive, with the
\* regex engine's greedy-then-backtrack order: group(1), or <<>>
ZoneCodeAt(url, p) ==
  LET IsL(k) == k <= Len(url) /\ url[k] \in Letters
      IsD(k) == k <= Len(url) /\ url[k] \in Digits
      IsCZ(k) == k <= Len(url) /\ UpperChar(url[k]) \in {"C", "Z"}
      Rest(k) == (IsCZ(k) /\ IsD(k + 1)) \/ IsD(k)
  IN IF IsL(p) /\ IsL(p + 1) /\ IsL(p + 2) /\ Rest(p + 3) THEN SubSeq(url, p, p + 2)
     ELSE IF IsL(p) /\ IsL(p + 1) /\ Rest(p + 2) THEN SubSeq(url, p, p + 1)
     ELSE <<>>

\* the pattern matched with "/zones/" at position i: group(1), or <<>>
ZoneCodeFrom(url, i) ==
  IF i + 6 <= Len(url) /\ Upper(SubSeq(url, i, i + 6)) = <<"/","Z","O","N","E","S","/">>
  THEN LET slashes == {j \in (i + 7)..Len(url) : url[j] = "/"}
       \* [^/]+ then "/": at least one character before the next slash
       IN IF slashes = {} \/ (i + 7) \in slashes THEN <<>>
          ELSE ZoneCodeAt(url, MinOf(slashes) + 1)
  ELSE <<>>

\* re.search(r'/zones/[^/]+/([A-Z]{2,3})[CZ]?\d+', zone_url, re.IGNORECASE):
\* group(1) of the leftmost match, upper-cased, or <<>> when there is none
ZoneOffice(url) ==
  LET starts == {i \in 1..Len(url) : ZoneCodeFrom(url, i) # <<>>}
  IN IF starts = {} THEN <<>> ELSE Upper(ZoneCodeFrom(url, MinOf(starts)))

\* for zone_url in zones: ... if zone_office in cwa_offices_set: ... break
FirstValid(offices, codes) ==
  LET hits == {i \in 1..Len(offices) : offices[i] # <<>> /\ offices[i] \in codes}
  IN IF hits = {} THEN NoOffice ELSE offices[MinOf(hits)]

\* Strategy 2: Zone URL matching
Strategy2(props, codes) ==
  FirstValid([i \in 1..Len(props.affectedZones) |-> ZoneOffice(props.affectedZones[i])], codes)

state_cwa_mapping ==
  <<
    <<<<"C","A","L","I","F","O","R","N","I","A">>, <<<<"L","O","X">>, <<"M","T","R">>, <<"S","G","X">>, <<"H","N","X">>, <<"S","T","O">>, <<"E","K","A">>, <<"M","F","R">>>>>>,
    <<<<"T","E","X","A","S">>, <<<<"F","W","D">>, <<"H","G","X">>, <<"E","W","X">>, <<"L","Z","K">>, <<"E","P","Z">>>>>>,
    <<<<"F","L","O","R","I","D","A">>, <<<<"M","F","L">>, <<"T","B","W">>, <<"J","A","X">>, <<"M","L","B">>>>>>,
    <<<<"N","E","W"," ","Y","O","R","K">>, <<<<"O","K","X">>, <<"A","L","Y">>, <<"B","G","M">>, <<"B","U","F">>>>>>,
    <<<<"P","E","N","N","S","Y","L","V","A","N","I","A">>, <<<<"P","H","I">>, <<"P","B","Z">>, <<"B","G","M">>, <<"C","T","P">>>>>>,
    <<<<"I","L","L","I","N","O","I","S">>, <<<<"L","O","T">>, <<"I","L","X">>>>>>,
    <<<<"V","I","R","G","I","N","I","A">>, <<<<"L","W","X">>, <<"A","K","Q">>, <<"R","N","K">>>>>>,
    <<<<"W","A","S","H","I","N","G","T","O","N">>, <<<<"S","E","W">>, <<"O","T","X">>, <<"P","Q","R">>>>>>,
    <<<<"C","O","L","O","R","A","D","O">>, <<<<"B","O","U">>, <<"G","J","T">>, <<"P","U","B">>>>>>,
    <<<<"M","O","N","T","A","N","A">>, <<<<"T","F","X">>, <<"M","S","O">>, <<"B","Y","Z">>, <<"G","G","W">>>>>>,
    <<<<"N","O","R","T","H"," ","C","A","R","O","L","I","N","A">>, <<<<"R","A","H">>, <<"G","S","P">>, <<"I","L","M">>, <<"M","H","X">>>>>>,
    <<<<"S","O","U","T","H"," ","C","A","R","O","L","I","N","A">>, <<<<"C","A","E">>, <<"C","H","S">>, <<"G","S","P">>>>>>,
    <<<<"G","E","O","R","G","I","A">>, <<<<"F","F","C">>, <<"J","A","X">>>>>>,
    <<<<"A","L","A","B","A","M","A">>, <<<<"B","M","X">>, <<"H","U","N">>, <<"M","O","B">>>>>>,
    <<<<"T","E","N","N","E","S","S","E","E">>, <<<<"O","H","X">>, <<"M","E","G">>>>>>,
    <<<<"K","E","N","T","U","C","K","Y">>, <<<<"J","K","L">>, <<"P","A","H">>, <<"L","M","K">>>>>>,
    <<<<"O","H","I","O">>, <<<<"C","L","E">>, <<"I","L","N">>, <<"P","B","Z">>>>>>,
    <<<<"M","I","C","H","I","G","A","N">>, <<<<"D","T","X">>, <<"G","R","R">>, <<"A","P","X">>>>>>,
    <<<<"W","I","S","C","O","N","S","I","N">>, <<<<"M","K","X">>, <<"G","R","B">>, <<"M","P","X">>>>>>,
    <<<<"M","I","N","N","E","S","O","T","A">>, <<<<"M","P","X">>, <<"D","L","H">>>>>>,
    <<<<"I","O","W","A">>, <<<<"D","V","N">>, <<"D","M","X">>, <<"A","R","X">>>>>>,
    <<<<"M","I","S","S","O","U","R","I">>, <<<<"S","G","F">>, <<"L","S","X">>, <<"E","A","X">>>>>>,
    <<<<"A","R","K","A","N","S","A","S">>, <<<<"L","Z","K">>, <<"S","H","V">>, <<"T","S","A">>>>>>,
    <<<<"L","O","U","I","S","I","A","N","A">>, <<<<"L","I","X">>, <<"S","H","V">>, <<"L","C","H">>>>>>,
    <<<<"M","I","S","S","I","S","S","I","P","P","I">>, <<<<"J","A","N">>, <<"L","I","X">>>>>>,
    <<<<"O","K","L","A","H","O","M","A">>, <<<<"O","U","N">>, <<"T","S","A">>>>>>,
    <<<<"K","A","N","S","A","S">>, <<<<"I","C","T">>, <<"T","O","P">>, <<"D","D","C">>>>>>,
    <<<<"N","E","B","R","A","S","K","A">>, <<<<"O","A","X">>, <<"G","I","D">>, <<"L","B","F">>>>>>,
    <<<<"S","O","U","T","H"," ","D","A","K","O","T","A">>, <<<<"F","S","D">>, <<"A","B","R">>, <<"U","N","R">>>>>>,
    <<<<"N","O","R","T","H"," ","D","A","K","O","T","A">>, <<<<"B","I","S">>, <<"F","G","F">>, <<"G","F","K">>>>>>,
    <<<<"W","Y","O","M","I","N","G">>, <<<<"C","Y","S">>, <<"R","I","W">>>>>>,
    <<<<"U","T","A","H">>, <<<<"S","L","C">>>>>>,
    <<<<"N","E","V","A","D","A">>, <<<<"R","E","V">>, <<"V","E","F">>, <<"L","K","N">>>>>>,
    <<<<"A","R","I","Z","O","N","A">>, <<<<"P","S","R">>, <<"T","W","C">>, <<"F","G","Z">>>>>>,
    <<<<"N","E","W"," ","M","E","X","I","C","O">>, <<<<"A","B","Q">>, <<"E","P","Z">>>>>>,
    <<<<"I","D","A","H","O">>, <<<<"B","O","I">>, <<"P","I","H">>, <<"M","S","O">>>>>>,
    <<<<"O","R","E","G","O","N">>, <<<<"P","Q","R">>, <<"M","F","R">>, <<"P","D","T">>>>>>,
    <<<<"A","L","A","S","K","A">>, <<<<"A","F","C">>, <<"A","J","K">>, <<"A","F","G">>>>>>,
    <<<<"H","A","W","A","I","I">>, <<<<"H","F","O">>>>>>,
    <<<<"P","U","E","R","T","O"," ","R","I","C","O">>, <<<<"S","J","U">>>>>>
  >>

\* props.get('areaDesc', '').upper() raises AttributeError on a list
Strategy3Raises(props) == props.areaDesc.t # "str"

\* for state, possible_cwas in mapping.items(): if state in area_desc:
\*   for cwa in possible_cwas: if cwa in cwa_offices_set: ... break
StateLookup(area_desc, codes, mapping) ==
  LET hits == {i \in 1..Len(mapping) :
                 /\ Contains(area_desc, mapping[i][1])
                 /\ \E j \in 1..Len(mapping[i][2]) : mapping[i][2][j] \in codes}
  IN IF hits = {} THEN NoOffice ELSE FirstValid(mapping[MinOf(hits)][2], codes)

\* Strategy 3: State mapping (areaDesc a str)
Strategy3(props, codes) == StateLookup(Upper(props.areaDesc.v), codes, state_cwa_mapping)

\* f"NWS {cwa}" in text_upper or f" {cwa} " in text_upper
TextMentions(text_upper, cwa) ==
  \/ Contains(text_upper, <<"N","W","S"," ">> \o cwa)
  \/ Contains(text_upper, <<" ">> \o cwa \o <<" ">>)

\* for cwa in cwa_offices_set: if ... in text_upper: ... break
FirstMentioned(text_upper, order) ==
  LET hits == {j \in 1..Len(order) : TextMentions(text_upper, order[j])}
  IN IF hits = {} THEN NoOffice ELSE order[MinOf(hits)]

\* for text in text_fields: if text: ...; the first text that names an office
FirstText(offices) ==
  LET hits == {i \in 1..Len(offices) : offices[i] # NoOffice}
  IN IF hits = {} THEN NoOffice ELSE offices[MinOf(hits)]

\* Strategy 4: Text content matching; order is the iteration order of
\* cwa_offices_set, a Python set of str
Strategy4(props, order) ==
  FirstText(<<FirstMentioned(Upper(props.headline), order),
              FirstMentioned(Upper(props.description), order),
              FirstMentioned(Upper(props.instruction), order)>>)

\* The cascade of match_alerts_to_cwa for one alert: alert_office and
\* matching_method after each `if not alert_office` block, or raised
Assigned(office, method) == [office |-> office, method |-> method, raised |-> FALSE]
Unassigned == [office |-> NoOffice, method |-> "None", raised |-> FALSE]
Raised == [office |-> NoOffice, method |-> "None", raised |-> TRUE]

\* a strategy's block: skipped when alert_office is set (or an earlier block
\* raised), else alert_office and matching_method set when it finds an office
Block(prev, office, method) ==
  IF prev.raised \/ prev.office # NoOffice THEN prev
  ELSE IF office # NoOffice THEN Assigned(office, method) ELSE prev

\* Strategy 3's block: .upper() is called before anything is looked up
Block3(prev, props, codes) ==
  IF prev.raised \/ prev.office # NoOffice THEN prev
  ELSE IF Strategy3Raises(props) THEN Raised
  ELSE Block(prev, Strategy3(props, codes), "state_mapping")

AfterStrategy1(props, order) ==
  Block(Unassigned, Strategy1(props, Range(order)), "alert_id")

AfterStrategy2(props, order) ==
  Block(AfterStrategy1(props, order), Strategy2(props, Range(order)), "affected_zones")

AfterStrategy3(props, order) ==
  Block3(AfterStrategy2(props, order), props, Range(order))

AfterStrategy4(props, order) ==
  Block(AfterStrategy3(props, order), Strategy4(props, order), "text_content")

\* props.get('id', '').split('/')[-1] if props.get('id') else None
AlertIdOf(props) ==
  IF props.id = <<>> THEN PyNone
  ELSE LET parts == Split(props.id, "/") IN PyStr(parts[Len(parts)])

\* areas_affected: '; '.join(area_desc) for a list, else area_desc or None
AreasAffected(props) ==
  IF props.areaDesc.t = "list" THEN PyStr(Join(props.areaDesc.v, <<";", " ">>))
  ELSE StrOrNone(props.areaDesc.v)

DescriptionLimit == 300

\* alert_data
AlertData(props, office, method, now) ==
  [cwa_office |-> PyStr(office),
   alert_id |-> AlertIdOf(props),
   event_type |-> LabelOrNone(props.event),
   severity |-> LabelOrNone(props.severity),
   urgency |-> LabelOrNone(props.urgency),
   certainty |-> LabelOrNone(props.certainty),
   status |-> LabelOrNone(props.status),
   headline |-> StrOrNone(props.headline),
   description |-> StrOrNone(SubSeq(props.description, 1,
                     IF Len(props.description) < DescriptionLimit
                     THEN Len(props.description) ELSE DescriptionLimit)),
   areas_affected |-> AreasAffected(props),
   effective_time |-> IF props.effective.k = "absent" THEN PyNone ELSE props.effective,
   expires_time |-> IF props.expires.k = "absent" THEN PyNone ELSE props.expires,
   message_type |-> LabelOrNone(props.messageType),
   alert_active |-> PyBool(is_alert_active(props, now)),
   severity_score |-> PyInt(get_severity_score(props.severity)),
   last_updated |-> PyLabel("now"),        \* datetime.now().isoformat(): never read back
   matching_method |-> PyLabel(method)]

\* lines 256-285: alert_data appended when an office was found
Finish(a, props, order, now) ==
  IF a.raised THEN [kind |-> "raise"]
  ELSE IF a.office # NoOffice /\ a.office \in Range(order)
       THEN [kind |-> "matched", data |-> AlertData(props, a.office, a.method, now)]
       ELSE [kind |-> "dropped"]

\* One iteration of `for alert in alerts`: the exception raised, no append
\* (dropped), or the alert_data appended
MatchOne(props, order, now) == Finish(AfterStrategy4(props, order), props, order, now)

\* match_alerts_to_cwa: [raised |-> TRUE] when an iteration raises, else the
\* list matched_alerts
RECURSIVE MatchLoop(_, _)
MatchLoop(results, acc) ==
  IF results = <<>> THEN [raised |-> FALSE, matched |-> acc]
  ELSE IF Head(results).kind = "raise" THEN [raised |-> TRUE, matched |-> <<>>]
  ELSE MatchLoop(Tail(results),
                 IF Head(results).kind = "matched" THEN Append(acc, Head(results).data) ELSE acc)

match_alerts_to_cwa(feedAlerts, order, now) ==
  MatchLoop([i \in 1..Len(feedAlerts) |-> MatchOne(feedAlerts[i], order, now)], <<>>)

-----------------------------------------------------------------------------
(* Inputs of the matcher's specification *)

\* the orders in which a Python set of str may iterate (str hashes are salted per process)
Orders(S) ==
  {o \in [1..Cardinality(S) -> S] : \A i, j \in 1..Cardinality(S) : o[i] = o[j] => i = j}

\* alert identifiers: none, "a-LOX-1", "x/b-mtr"
SampleIds ==
  { <<>>,
    <<"a","-","L","O","X","-","1">>,
    <<"x","/","b","-","m","t","r">> }

\* zone URL lists: none, one UGC-style zone whose letters are no office,
\* and a zone naming MTR after one naming nothing
SampleZones ==
  { <<>>,
    << <<"/","z","o","n","e","s","/","f","/","C","A","Z","0","4","1">> >>,
    << <<"/","z","o","n","e","s","/","/","L","O","X","1">>,
       <<"/","z","o","n","e","s","/","c","/","m","t","r","c","7">> >> }

\* area descriptions: none, "Utah", a list of two names, a list holding "Utah"
SampleAreas ==
  { PyStr(<<>>),
    PyStr(<<"U","t","a","h">>),
    PyList(<< <<"K","e","r","n">>, <<"I","n","y","o">> >>),
    PyList(<< <<"U","t","a","h">> >>) }

\* headlines: none, "NWS LOX", " MTR LOX " (mentions two offices)
SampleHeadlines ==
  { <<>>,
    <<"N","W","S"," ","L","O","X">>,
    <<" ","M","T","R"," ","L","O","X"," ">> }

\* descriptions: none, "at slc ."
SampleDescriptions ==
  { <<>>, <<"a","t"," ","s","l","c"," ",".">> }

SampleCodes == {LOX, MTR, SLC}

MatchProps(id, zones, area, headline, description) ==
  [id |-> id, affectedZones |-> zones, areaDesc |-> area, headline |-> headline,
   description |-> description, instruction |-> <<>>,
   event |-> "Flood Warning", severity |-> "Severe", urgency |-> "Immediate",
   certainty |-> "Observed", status |-> "Actual", messageType |-> "Alert",
   effective |-> TsAbsent, expires |-> TsAbsent]

NotRun == [kind |-> "not run"]

\* the variables of the other specifications stay idle
IdleActive == a_props = "unused" /\ a_now = "unused" /\ a_result = "unused" /\ a_pc = "unused"
IdleMatch ==
  /\ m_props = "unused" /\ m_codes = "unused" /\ m_order = "unused"
  /\ m_result = "unused" /\ m_pc = "unused"
IdleHandler ==
  /\ pc = "unused" /\ tmpInput = "unused" /\ tmpOutput = "unused"
  /\ s3Output = "unused" /\ uploaded = "unused" /\ response = "unused"
  /\ df_main = "unused" /\ cwa_column = "unused" /\ cwa_order = "unused"
  /\ alerts = "unused" /\ fetchStatus = "unused" /\ matched_alerts = "unused"
  /\ matcherRan = "unused" /\ df_enhanced = "unused" /\ success = "unused"

InitMatch ==
  /\ \E id \in SampleIds, zones \in SampleZones, area \in SampleAreas,
        headline \in SampleHeadlines, description \in SampleDescriptions :
       m_props = MatchProps(id, zones, area, headline, description)
  /\ m_codes \in SUBSET SampleCodes
  /\ m_order \in [1..2 -> Orders(m_codes)]
  /\ m_result = <<NotRun, NotRun>>
  /\ m_pc = "ready"
  /\ IdleActive
  /\ IdleHandler

\* Execution e of the loop body of match_alerts_to_cwa on the alert, in a
\* process whose set iterates in m_order[e]; execution e happens at time e
Execute(e) ==
  /\ m_result[e] = NotRun
  /\ m_result' = [m_result EXCEPT ![e] = MatchOne(m_props, m_order[e], e)]
  /\ m_pc' = IF \A k \in 1..2 : m_result'[k] # NotRun THEN "done" ELSE "running"
  /\ UNCHANGED <<m_props, m_codes, m_order>>
  /\ UNCHANGED avars
  /\ UNCHANGED hvars

ExecuteFirst == Execute(1)
ExecuteSecond == Execute(2)

NextMatch == ExecuteFirst \/ ExecuteSecond

SpecMatch == InitMatch /\ [][NextMatch]_vars

-----------------------------------------------------------------------------
(* Inputs of the activity evaluator's specification *)

SampleStatuses == {"Actual", "Test", ""}
SampleTimestamps ==
  {TsAbsent, TsBad} \cup {TsNaive(t) : t \in 0..MaxTime} \cup {TsAware(t) : t \in 0..MaxTime}

InitActive ==
  /\ \E status \in SampleStatuses, effective \in SampleTimestamps, expires \in SampleTimestamps :
       a_props = [status |-> status, effective |-> effective, expires |-> expires]
  /\ a_now \in 0..MaxTime
  /\ a_result = "none"
  /\ a_pc = "ready"
  /\ IdleMatch
  /\ IdleHandler

Evaluate ==
  /\ a_pc = "ready"
  /\ a_result' = is_alert_active(a_props, a_now)
  /\ a_pc' = "done"
  /\ UNCHANGED <<a_props, a_now>>
  /\ UNCHANGED mvars
  /\ UNCHANGED hvars

NextActive == Evaluate

SpecActive == InitActive /\ [][NextActive]_vars

-----------------------------------------------------------------------------
(* integrate_weather_alerts: the DataFrame operations.  A table is          *)
(* [columns |-> sequence of names, rows |-> sequence of rows], a row a      *)
(* function from the column names to Python values.                         *)

possible_cwa_columns == <<"CWA_Region", "CWA_region", "CWA", "Weather_Office", "NWS_Office">>

NoColumn == ""            \* cwa_column = None

\* FindCwaColumn taking the first candidate in the table's column order
FindCwaColumn_TableOrder(columns) ==
  LET present == {i \in 1..Len(columns) : columns[i] \in Range(possible_cwa_columns)}
  IN IF present = {} THEN NoColumn ELSE columns[MinOf(present)]

\* for col in possible_cwa_columns: if col in df_main.columns: ... break
FindCwaColumn(columns) ==
  LET present == {i \in 1..Len(possible_cwa_columns) : possible_cwa_columns[i] \in Range(columns)}
  IN IF present = {} THEN NoColumn ELSE possible_cwa_columns[MinOf(present)]

IsNull(v) == v = PyNone \/ v = NaN

\* set(cwa.upper() for cwa in df_main[cwa_column].dropna().unique())
CwaOfficesSet(df, col) ==
  {Upper(df.rows[i][col].v) : i \in {j \in 1..Len(df.rows) : ~IsNull(df.rows[j][col])}}

\* the keys of alert_data, then the three columns integrate_weather_alerts adds
DerivedColumns ==
  <<"cwa_office", "alert_id", "event_type", "severity", "urgency", "certainty", "status",
    "headline", "description", "areas_affected", "effective_time", "expires_time",
    "message_type", "alert_active", "severity_score", "last_updated", "matching_method",
    "has_active_alerts", "alert_count", "max_severity_score">>

AlertColumns == Range(DerivedColumns) \ {"has_active_alerts", "alert_count", "max_severity_score"}

RECURSIVE Flatten(_)
Flatten(seqs) == IF seqs = <<>> THEN <<>> ELSE Head(seqs) \o Flatten(Tail(seqs))

\* a left row joined with its matching alerts: one row per alert in the
\* alerts' order, or the row once with NaN in the alerts' columns
JoinedRow(row, matches) ==
  IF matches = <<>> THEN <<row @@ [c \in AlertColumns |-> NaN]>>
  ELSE [k \in 1..Len(matches) |-> row @@ matches[k]]

\* df_main.merge(df_alerts, left_on=cwa_column, right_on='cwa_office', how='left'):
\* the left order is kept
Merge(df, right, on) ==
  Flatten([i \in 1..Len(df.rows) |->
             JoinedRow(df.rows[i], SelectSeq(right, LAMBDA m : m.cwa_office = df.rows[i][on]))])

\* .replace({'True': True, 'False': False}).fillna(False).astype(bool)
AsBool(v) == IF IsNull(v) THEN PyBool(FALSE) ELSE v

\* groupby(key)[col].transform('count').fillna(0): rows whose key is null
\* belong to no group
GroupCount(rows, key, col, i) ==
  IF IsNull(rows[i][key]) THEN PyInt(0)
  ELSE PyInt(Cardinality({j \in 1..Len(rows) : rows[j][key] = rows[i][key] /\ ~IsNull(rows[j][col])}))

\* groupby(key)[col].transform('max').fillna(0)
GroupMax(rows, key, col, i) ==
  LET vals == {rows[j][col].v : j \in {k \in 1..Len(rows) :
                  rows[k][key] = rows[i][key] /\ ~IsNull(rows[k][col])}}
  IN IF IsNull(rows[i][key]) \/ vals = {} THEN PyInt(0) ELSE PyInt(MaxOf(vals))

\* lines 70-71: alert_active as a bool, copied to has_active_alerts
WithFlags(rows) ==
  [i \in 1..Len(rows) |->
     [rows[i] EXCEPT !["alert_active"] = AsBool(rows[i]["alert_active"])]
       @@ [c \in {"has_active_alerts"} |-> AsBool(rows[i]["alert_active"])]]

\* lines 74-75: the two summary columns
WithSummary(rows, on) ==
  [i \in 1..Len(rows) |->
     rows[i] @@ [c \in {"alert_count", "max_severity_score"} |->
                   IF c = "alert_count"
                   THEN GroupCount(rows, on, "alert_id", i)
                   ELSE GroupMax(rows, on, "severity_score", i)]]

\* lines 54-75: the branch taken when matched_alerts is not empty
Enhance(df, matched, on) == WithSummary(WithFlags(Merge(df, matched, on)), on)

\* empty_columns
empty_columns ==
  [c \in Range(DerivedColumns) |->
     CASE c \in {"alert_active", "has_active_alerts"} -> PyBool(FALSE)
       [] c \in {"severity_score", "alert_count", "max_severity_score"} -> PyInt(0)
       [] OTHER -> PyNone]

\* lines 79-94: the branch taken when matched_alerts is empty
AddEmptyColumns(df) == [i \in 1..Len(df.rows) |-> df.rows[i] @@ empty_columns]

text_fields == <<"Organization Name", "Primary Address Street", "headline", "description", "areas_affected">>

\* Series.astype(str) on an object column: str() of each value, of a missing
\* one too (None gives 'None', NaN gives 'nan')
AsTypeStr(v) ==
  CASE v = PyNone -> <<"N","o","n","e">>
    [] v = NaN -> <<"n","a","n">>
    [] OTHER -> v.v

\* x.replace('"', '""').replace('\n', ' ').replace('\r', ' ')
\*   if pd.notna(x) and x != 'nan' else ''
CleanText(x) ==
  IF x # <<"n","a","n">>
  THEN Replace(Replace(Replace(x, "\"", <<"\"", "\"">>), "\n", <<" ">>), "\r", <<" ">>)
  ELSE <<>>

\* lines 96-103
SanitizeRow(row) ==
  [c \in DOMAIN row |->
     IF c \in Range(text_fields) THEN PyStr(CleanText(AsTypeStr(row[c]))) ELSE row[c]]

Sanitize(rows) == [i \in 1..Len(rows) |-> SanitizeRow(rows[i])]

\* lines 53-103: df_enhanced as it is handed to to_csv
BuildEnhanced(df, matched, on) ==
  Sanitize(IF matched # <<>> THEN Enhance(df, matched, on) ELSE AddEmptyColumns(df))

\* DataFrame.to_csv: a missing value (None, NaN) is written as the empty field
CsvCell(v) == IF IsNull(v) THEN PyStr(<<>>) ELSE v
ToCsv(rows) == [i \in 1..Len(rows) |-> [c \in DOMAIN rows[i] |-> CsvCell(rows[i][c])]]

-----------------------------------------------------------------------------
(* Inputs of lambda_handler: the input object in S3 and the alert feed *)

DigitText == <<"0","1","2","3","4","5","6","7","8","9">>
OrgName(i) == <<"O","r","g"," ", DigitText[i + 1]>>

\* values of an office-code cell: a code, a code in lower case, a missing value
CodeValues == {PyStr(LOX), PyStr(lox), NaN}

\* a table without an office-code column
TablesNone(n) ==
  {[columns |-> <<"Organization Name">>,
    rows |-> [i \in 1..n |-> [c \in {"Organization Name"} |-> PyStr(OrgName(i))]]]}

\* a table whose office-code column is the last candidate
TablesOne(n) ==
  {[columns |-> <<"Organization Name", "NWS_Office">>,
    rows |-> [i \in 1..n |->
                [c \in {"Organization Name", "NWS_Office"} |->
                   IF c = "NWS_Office" THEN cs[i] ELSE PyStr(OrgName(i))]]]
     : cs \in [1..n -> CodeValues]}

\* a table holding two candidates, the later one of the list first
TablesTwo(n) ==
  {[columns |-> <<"Organization Name", "CWA", "CWA_region">>,
    rows |-> [i \in 1..n |->
                [c \in {"Organization Name", "CWA", "CWA_region"} |->
                   CASE c = "CWA" -> PyStr(SLC)
                     [] c = "CWA_region" -> cs[i]
                     [] OTHER -> PyStr(OrgName(i))]]]
     : cs \in [1..n -> {PyStr(LOX), PyStr(MTR)}]}

Tables == UNION {TablesNone(n) \cup TablesOne(n) \cup TablesTwo(n) : n \in 0..MaxRows}

NoFile == [kind |-> "none"]
StaleFile == [kind |-> "stale"]           \* left by an earlier invocation
GarbageFile == [kind |-> "garbage"]       \* bytes that are no CSV table
PartialFile == [kind |-> "partial"]       \* a write that did not complete
CsvFile(columns, rows) == [kind |-> "csv", columns |-> columns, rows |-> rows]
PreviousObject == [kind |-> "previous"]   \* what the destination held before

InputObjects == {CsvFile(t.columns, t.rows) : t \in Tables} \cup {GarbageFile}

FeedProps(id, zones, area, headline, severity) ==
  [id |-> id, affectedZones |-> zones, areaDesc |-> area, headline |-> headline,
   description |-> <<>>, instruction |-> <<>>,
   event |-> "Flood Warning", severity |-> severity, urgency |-> "Immediate",
   certainty |-> "Observed", status |-> "Actual", messageType |-> "Alert",
   effective |-> TsAbsent, expires |-> TsAbsent]

\* "a-LOX-1", headline "NWS LOX", area "Kern"
AlertLoxSevere ==
  FeedProps(<<"a","-","L","O","X","-","1">>, <<>>, PyStr(<<"K","e","r","n">>),
            <<"N","W","S"," ","L","O","X">>, "Severe")
\* "u-9", zone /zones/c/mtrc7, no headline
AlertMtrZone ==
  FeedProps(<<"u","-","9">>, << <<"/","z","o","n","e","s","/","c","/","m","t","r","c","7">> >>,
            PyStr(<<>>), <<>>, "Extreme")
\* "x/b-lox", areaDesc a list of names
AlertLoxList ==
  FeedProps(<<"x","/","b","-","l","o","x">>, <<>>,
            PyList(<< <<"K","e","r","n">>, <<"I","n","y","o">> >>), <<>>, "Minor")

SampleAlerts == {AlertLoxSevere, AlertMtrZone, AlertLoxList}
Feeds == UNION {[1..n -> SampleAlerts] : n \in 0..MaxAlerts}

-----------------------------------------------------------------------------
(* lambda_handler and integrate_weather_alerts, step by step *)

NoTable == [columns |-> <<>>, rows |-> <<>>]

Init ==
  /\ pc = "idle"
  /\ tmpInput = NoFile
  /\ tmpOutput = NoFile
  /\ s3Output = PreviousObject
  /\ uploaded = FALSE
  /\ response = 0
  /\ df_main = NoTable
  /\ cwa_column = NoColumn
  /\ cwa_order = <<>>
  /\ alerts = <<>>
  /\ fetchStatus = "none"
  /\ matched_alerts = <<>>
  /\ matcherRan = FALSE
  /\ df_enhanced = <<>>
  /\ success = "none"
  /\ IdleMatch
  /\ IdleActive

locals == <<df_main, cwa_column, cwa_order, alerts, fetchStatus, matched_alerts,
            matcherRan, df_enhanced, success>>
files == <<tmpInput, tmpOutput, s3Output>>
others == <<mvars, avars>>

\* The scheduled event starts lambda_handler; a warm container keeps /tmp
Invoke ==
  /\ pc \in {"idle", "returned"}
  /\ pc' = "download"
  /\ tmpInput' = IF tmpInput = NoFile THEN NoFile ELSE StaleFile
  /\ tmpOutput' = IF tmpOutput = NoFile THEN NoFile ELSE StaleFile
  /\ s3Output' = PreviousObject
  /\ uploaded' = FALSE
  /\ response' = 0
  /\ df_main' = NoTable
  /\ cwa_column' = NoColumn
  /\ cwa_order' = <<>>
  /\ alerts' = <<>>
  /\ fetchStatus' = "none"
  /\ matched_alerts' = <<>>
  /\ matcherRan' = FALSE
  /\ df_enhanced' = <<>>
  /\ success' = "none"
  /\ UNCHANGED others

\* s3_client.download_file: writes the object to input_path, or raises
Download ==
  /\ pc = "download"
  /\ \/ \E obj \in InputObjects :
          /\ tmpInput' = obj
          /\ pc' = "read_csv"
     \/ /\ pc' = "except"
        /\ UNCHANGED tmpInput
  /\ UNCHANGED <<tmpOutput, s3Output, uploaded, response, locals, others>>

\* pd.read_csv(input_file): raises on bytes that are no table
LoadCsv ==
  /\ pc = "read_csv"
  /\ IF tmpInput.kind = "csv"
     THEN /\ df_main' = [columns |-> tmpInput.columns, rows |-> tmpInput.rows]
          /\ pc' = "find_column"
          /\ UNCHANGED success
     ELSE /\ success' = "False"
          /\ pc' = "integrated"
          /\ UNCHANGED df_main
  /\ UNCHANGED <<files, uploaded, response, cwa_column, cwa_order, alerts, fetchStatus,
                 matched_alerts, matcherRan, df_enhanced, others>>

\* lines 25-43: the office column and the set of office codes
FindColumn ==
  /\ pc = "find_column"
  /\ cwa_column' = FindCwaColumn(df_main.columns)
  /\ IF cwa_column' = NoColumn
     THEN /\ success' = "False"
          /\ pc' = "integrated"
          /\ UNCHANGED cwa_order
     ELSE /\ cwa_order' \in Orders(CwaOfficesSet(df_main, cwa_column'))
          /\ pc' = "fetch"
          /\ UNCHANGED success
  /\ UNCHANGED <<files, uploaded, response, df_main, alerts, fetchStatus,
                 matched_alerts, matcherRan, df_enhanced, others>>

\* fetch_nws_alerts: the features of a 200 response, [] otherwise
Fetch ==
  /\ pc = "fetch"
  /\ \/ \E f \in Feeds : alerts' = f /\ fetchStatus' = "ok"
     \/ alerts' = <<>> /\ fetchStatus' = "http_error"
     \/ alerts' = <<>> /\ fetchStatus' = "exception"
  /\ pc' = "match"
  /\ UNCHANGED <<files, uploaded, response, df_main, cwa_column, cwa_order,
                 matched_alerts, matcherRan, df_enhanced, success, others>>

\* the matcher has returned r or raised
MatchReturns(r) ==
  /\ matcherRan' = TRUE
  /\ IF r.raised
     THEN /\ success' = "False"
          /\ pc' = "integrated"
          /\ UNCHANGED matched_alerts
     ELSE /\ matched_alerts' = r.matched
          /\ pc' = "build"
          /\ UNCHANGED success

\* lines 47-51
Match ==
  /\ pc = "match"
  /\ IF alerts = <<>>
     THEN /\ matched_alerts' = <<>>
          /\ pc' = "build"
          /\ UNCHANGED <<matcherRan, success>>
     ELSE \E now \in 0..MaxTime : MatchReturns(match_alerts_to_cwa(alerts, cwa_order, now))
  /\ UNCHANGED <<files, uploaded, response, df_main, cwa_column, cwa_order, alerts,
                 fetchStatus, df_enhanced, others>>

\* lines 53-103
Build ==
  /\ pc = "build"
  /\ df_enhanced' = BuildEnhanced(df_main, matched_alerts, cwa_column)
  /\ pc' = "save"
  /\ UNCHANGED <<files, uploaded, response, df_main, cwa_column, cwa_order, alerts,
                 fetchStatus, matched_alerts, matcherRan, success, others>>

\* df_enhanced.to_csv(output_file): the file written and True returned, or an
\* I/O error part-way and False returned
Save ==
  /\ pc = "save"
  /\ \/ /\ tmpOutput' = CsvFile(df_main.columns \o DerivedColumns, ToCsv(df_enhanced))
        /\ success' = "True"
     \/ /\ tmpOutput' = PartialFile
        /\ success' = "False"
  /\ pc' = "integrated"
  /\ UNCHANGED <<tmpInput, s3Output, uploaded, response, df_main, cwa_column, cwa_order,
                 alerts, fetchStatus, matched_alerts, matcherRan, df_enhanced, others>>

\* CheckSuccess without the test of the integration's result
CheckSuccess_NoSuccessTest ==
  /\ pc = "integrated"
  /\ pc' = IF tmpOutput # NoFile THEN "upload" ELSE "except"
  /\ UNCHANGED <<files, uploaded, response, locals, others>>

\* lambda_function.py lines 49-51, 85-88
CheckSuccess ==
  /\ pc = "integrated"
  /\ pc' = IF success = "True" /\ tmpOutput # NoFile THEN "upload" ELSE "except"
  /\ UNCHANGED <<files, uploaded, response, locals, others>>

\* s3_client.upload_file: the object replaced as a whole, or an exception
Upload ==
  /\ pc = "upload"
  /\ \/ /\ s3Output' = tmpOutput
        /\ uploaded' = TRUE
        /\ pc' = "remove_input"
     \/ /\ pc' = "except"
        /\ UNCHANGED <<s3Output, uploaded>>
  /\ UNCHANGED <<tmpInput, tmpOutput, response, locals, others>>

\* os.remove(input_path) on the success path
RemoveInput ==
  /\ pc = "remove_input"
  /\ \/ tmpInput' = NoFile /\ pc' = "remove_output"
     \/ UNCHANGED tmpInput /\ pc' = "except"
  /\ UNCHANGED <<tmpOutput, s3Output, uploaded, response, locals, others>>

\* os.remove(output_path) on the success path
RemoveOutput ==
  /\ pc = "remove_output"
  /\ \/ tmpOutput' = NoFile /\ pc' = "return_200"
     \/ UNCHANGED tmpOutput /\ pc' = "except"
  /\ UNCHANGED <<tmpInput, s3Output, uploaded, response, locals, others>>

Return200 ==
  /\ pc = "return_200"
  /\ response' = 200
  /\ pc' = "returned"
  /\ UNCHANGED <<files, uploaded, locals, others>>

\* except Exception: the clean-up of input_path; a failing os.remove is passed
CleanupInput ==
  /\ pc = "except"
  /\ \/ tmpInput' = NoFile
     \/ tmpInput # NoFile /\ UNCHANGED tmpInput
  /\ pc' = "cleanup_output"
  /\ UNCHANGED <<tmpOutput, s3Output, uploaded, response, locals, others>>

\* the clean-up of output_path
CleanupOutput ==
  /\ pc = "cleanup_output"
  /\ \/ tmpOutput' = NoFile
     \/ tmpOutput # NoFile /\ UNCHANGED tmpOutput
  /\ pc' = "return_500"
  /\ UNCHANGED <<tmpInput, s3Output, uploaded, response, locals, others>>

Return500 ==
  /\ pc = "return_500"
  /\ response' = 500
  /\ pc' = "returned"
  /\ UNCHANGED <<files, uploaded, locals, others>>

Next ==
  \/ Invoke \/ Download \/ LoadCsv \/ FindColumn \/ Fetch \/ Match \/ Build \/ Save
  \/ CheckSuccess \/ Upload \/ RemoveInput \/ RemoveOutput \/ Return200
  \/ CleanupInput \/ CleanupOutput \/ Return500

Spec == Init /\ [][Next]_vars

-----------------------------------------------------------------------------
(* Claims about lambda_handler and integrate_weather_alerts (Spec) *)

\* C1: the output object is uploaded only after integrate_weather_alerts
\* returned success and the output file exists, and what is uploaded is that
\* run's complete output; in a run where the download fails, the integration
\* fails or the output is missing, the destination is left as it was.
C1_UploadAllOrNothing ==
  /\ pc = "upload" => success = "True" /\ tmpOutput.kind = "csv"
  /\ uploaded => /\ success = "True"
                 /\ s3Output = CsvFile(df_main.columns \o DerivedColumns, ToCsv(df_enhanced))
  /\ ~uploaded => s3Output = PreviousObject

C1_Witness == uploaded /\ response = 200 /\ Len(s3Output.rows) > 1

\* the office column has been looked for in this invocation
ColumnSearched == df_main # NoTable /\ pc # "find_column"

\* C3: the office column is the first name of the candidate list that the
\* table holds; when it holds none, integrate_weather_alerts returns False
\* before any fetch and any write, and the invocation reports failure.
C3_OfficeColumn ==
  ColumnSearched =>
    LET held == {i \in 1..5 :
                   <<"CWA_Region", "CWA_region", "CWA", "Weather_Office", "NWS_Office">>[i]
                     \in Range(df_main.columns)}
    IN IF held = {}
       THEN /\ cwa_column = NoColumn
            /\ success = "False"
            /\ fetchStatus = "none" /\ ~matcherRan
            /\ tmpOutput \in {NoFile, StaleFile}
            /\ ~uploaded /\ s3Output = PreviousObject
            /\ response # 200
            /\ pc = "returned" => response = 500
       ELSE \E i \in held :
              /\ \A j \in held : i <= j
              /\ cwa_column = <<"CWA_Region", "CWA_region", "CWA", "Weather_Office", "NWS_Office">>[i]

C3_Witness ==
  /\ ColumnSearched /\ cwa_column = "CWA_region" /\ "CWA" \in Range(df_main.columns)
  /\ pc = "returned" /\ response = 200

\* the other case of C3: no candidate, and the invocation has reported failure
NoColumnRunFailed ==
  /\ ColumnSearched /\ cwa_column = NoColumn /\ Len(df_main.rows) > 0
  /\ pc = "returned" /\ response = 500

\* the fetch of this invocation failed
FetchFailed == fetchStatus \in {"http_error", "exception"}

\* an output row carries the input row and the twenty derived columns at
\* their defaults, as the CSV file shows them (a null is the empty field)
DefaultRow(out, in) ==
  /\ DOMAIN out = DOMAIN in \cup Range(DerivedColumns)
  /\ \A c \in DOMAIN in : out[c] = CsvCell(in[c])
  /\ \A c \in Range(DerivedColumns) :
       out[c] = CASE c \in {"alert_active", "has_active_alerts"} -> PyBool(FALSE)
                  [] c \in {"severity_score", "alert_count", "max_severity_score"} -> PyInt(0)
                  [] OTHER -> PyStr(<<>>)

\* C2: when the fetch fails and the table has an office column,
\* fetch_nws_alerts returns no alert, the matcher is not run, and
\* integrate_weather_alerts reports success with one output row per input
\* row: the original columns plus the twenty derived columns at their
\* defaults (null, false, 0).
C2_FetchFailureDefaults ==
  (FetchFailed /\ pc = "integrated" /\ tmpOutput # PartialFile) =>
    /\ alerts = <<>> /\ ~matcherRan
    /\ success = "True"
    /\ tmpOutput.kind = "csv"
    /\ Len(tmpOutput.rows) = Len(df_main.rows)
    /\ \A i \in 1..Len(df_main.rows) : DefaultRow(tmpOutput.rows[i], df_main.rows[i])

\* the same, leaving out the three derived text columns
FetchFailureDefaultsButText ==
  (FetchFailed /\ pc = "integrated" /\ tmpOutput # PartialFile) =>
    /\ alerts = <<>> /\ ~matcherRan
    /\ success = "True"
    /\ tmpOutput.kind = "csv"
    /\ Len(tmpOutput.rows) = Len(df_main.rows)
    /\ \A i \in 1..Len(df_main.rows) :
         LET text == {"headline", "description", "areas_affected"}
             Cut(r) == [c \in DOMAIN r \ text |-> r[c]]
             out == tmpOutput.rows[i]
         IN DefaultRow([c \in DOMAIN out |-> IF c \in text THEN PyStr(<<>>) ELSE out[c]],
                       df_main.rows[i])

\* df_enhanced has been built and is about to be written
Built == pc = "save"

\* the matched alerts assigned to the office code a row holds
AssignedTo(code) ==
  {k \in 1..Len(matched_alerts) : matched_alerts[k].cwa_office = code}

\* C5: on every output row, alert_count is the number of matched alerts
\* assigned to the row's office code and max_severity_score the greatest
\* severity_score among them, 0 when there is none.
C5_Aggregates ==
  Built =>
    \A j \in 1..Len(df_enhanced) :
      LET mine == AssignedTo(df_enhanced[j][cwa_column])
      IN /\ df_enhanced[j]["alert_count"] = PyInt(Cardinality(mine))
         /\ df_enhanced[j]["max_severity_score"] =
              PyInt(IF mine = {} THEN 0
                    ELSE MaxOf({matched_alerts[k].severity_score.v : k \in mine}))

\* max_severity_score alone
MaxSeverityOnly ==
  Built =>
    \A j \in 1..Len(df_enhanced) :
      LET mine == AssignedTo(df_enhanced[j][cwa_column])
      IN df_enhanced[j]["max_severity_score"] =
           PyInt(IF mine = {} THEN 0
                 ELSE MaxOf({matched_alerts[k].severity_score.v : k \in mine}))

\* the output rows that come from input row i (organization names are
\* distinct in the inputs)
RowsFrom(i) ==
  {j \in 1..Len(df_enhanced) :
     \A c \in DOMAIN df_main.rows[i] : df_enhanced[j][c] = df_main.rows[i][c]}

\* what identifies an alert on an output row
AlertKey(r) == <<r["cwa_office"], r["alert_id"], r["severity"], r["matching_method"]>>

NullAlertFields(r) ==
  \A c \in AlertColumns \ {"alert_active"} :
    CsvCell(r[c]) = (IF c = "severity_score" /\ r[c] = PyInt(0) THEN r[c] ELSE PyStr(<<>>))

\* the left join with fan-out: an input row whose office code has k >= 1
\* matched alerts yields k output rows, one per alert; a row whose code has
\* none yields one output row (with null alert fields when `nulls`); no row is
\* lost and no output row carries an alert of another office
LeftJoinFanOut(nulls) ==
  Built =>
    /\ \A i \in 1..Len(df_main.rows) :
         LET mine == AssignedTo(df_main.rows[i][cwa_column])
         IN IF mine # {}
            THEN /\ Cardinality(RowsFrom(i)) = Cardinality(mine)
                 /\ \A k \in mine :
                      Cardinality({j \in RowsFrom(i) : AlertKey(df_enhanced[j]) = AlertKey(matched_alerts[k])})
                        = Cardinality({l \in mine : AlertKey(matched_alerts[l]) = AlertKey(matched_alerts[k])})
            ELSE /\ Cardinality(RowsFrom(i)) = 1
                 /\ nulls => \A j \in RowsFrom(i) : NullAlertFields(df_enhanced[j])
    /\ \A j \in 1..Len(df_enhanced) :
         /\ \E i \in 1..Len(df_main.rows) : j \in RowsFrom(i)
         /\ IsNull(df_enhanced[j]["cwa_office"]) \/ df_enhanced[j]["cwa_office"] = df_enhanced[j][cwa_column]

\* C6: the join is a left join with fan-out: k output rows for an input row
\* whose office code has k >= 1 matched alerts, one output row with null
\* alert fields for a row whose code has none; no input row is lost and no
\* output row carries an alert assigned to another office code.
C6_LeftJoin == LeftJoinFanOut(TRUE)

\* the same shape, whatever the alert fields of the unmatched rows hold
LeftJoinShape == LeftJoinFanOut(FALSE)

\* C10: lambda_handler returns 200 exactly when the output object was
\* uploaded in this invocation and 500 exactly when it was not, and on every
\* return neither temporary file is left behind.
C10_StatusAndCleanup ==
  pc = "returned" =>
    /\ response \in {200, 500}
    /\ response = 200 <=> uploaded
    /\ response = 500 <=> ~uploaded
    /\ tmpInput = NoFile /\ tmpOutput = NoFile

-----------------------------------------------------------------------------
(* Claims about is_alert_active (SpecActive) *)

\* what the claim says is_alert_active returns
C7_Claimed(props, now) ==
  IF props.status # "Actual" THEN FALSE
  ELSE IF props.effective.k = "absent" \/ props.expires.k = "absent" THEN TRUE
  ELSE IF props.effective.k = "malformed" \/ props.expires.k = "malformed" THEN FALSE
  ELSE props.effective.t <= now /\ now <= props.expires.t

\* C7: the Activity Evaluator returns false for a status other than "Actual";
\* for "Actual" true when effective or expires is absent, false when a present
\* timestamp is malformed, and for two valid timestamps true iff
\* effective <= now <= expires (inclusive).
C7_ActivityRule ==
  a_pc = "done" => a_result = C7_Claimed(a_props, a_now)

-----------------------------------------------------------------------------
(* Claims about match_alerts_to_cwa (SpecMatch) *)

Outcome(r) ==
  IF r.kind = "matched"
  THEN <<"matched", r.data.cwa_office.v, r.data.matching_method.v>>
  ELSE <<r.kind, NoOffice, "None">>

\* the first of the four strategies that succeeds, each evaluated on its own
C4_FirstSuccess(props, order) ==
  LET codes == Range(order)
      s1 == Strategy1(props, codes)
      s2 == Strategy2(props, codes)
      s3 == IF Strategy3Raises(props) THEN NoOffice ELSE Strategy3(props, codes)
      s4 == Strategy4(props, order)
  IN IF s1 # NoOffice THEN <<"matched", s1, "alert_id">>
     ELSE IF s2 # NoOffice THEN <<"matched", s2, "affected_zones">>
     ELSE IF s3 # NoOffice THEN <<"matched", s3, "state_mapping">>
     ELSE IF s4 # NoOffice THEN <<"matched", s4, "text_content">>
     ELSE <<"dropped", NoOffice, "None">>

\* C4: the four strategies apply in the order alert_id, affected_zones,
\* state_mapping, text_content; the first that succeeds decides office and
\* method, and the alert is dropped iff none succeeds.
C4_FirstSuccessWins ==
  \A e \in 1..2 :
    m_result[e] # NotRun => Outcome(m_result[e]) = C4_FirstSuccess(m_props, m_order[e])

\* The cascade order on the alerts whose areaDesc is a string
CascadeOrderOnStrAreaDesc ==
  \A e \in 1..2 :
    (m_result[e] # NotRun /\ m_props.areaDesc.t = "str")
      => Outcome(m_result[e]) = C4_FirstSuccess(m_props, m_order[e])

\* C8: two executions of the matcher on the same alert and the same set of
\* valid codes yield the same outcome (office and method, or both no match),
\* whatever the iteration order of the set.
C8_Deterministic ==
  m_pc = "done" => Outcome(m_result[1]) = Outcome(m_result[2])

\* some strategy can assign the alert to a valid code
C9_Assignable(props, order) ==
  \/ Strategy1(props, Range(order)) # NoOffice
  \/ Strategy2(props, Range(order)) # NoOffice
  \/ (~Strategy3Raises(props) /\ Strategy3(props, Range(order)) # NoOffice)
  \/ Strategy4(props, order) # NoOffice

\* C9: an assignable alert whose areaDesc is a list is matched without the
\* matcher failing, with areas_affected the names joined by "; "; a string
\* areaDesc gives the raw string, an empty or absent one null.
C9_AreasAffected ==
  \A e \in 1..2 :
    (m_result[e] # NotRun /\ C9_Assignable(m_props, m_order[e]))
      => /\ m_result[e].kind = "matched"
         /\ m_result[e].data.areas_affected =
              (IF m_props.areaDesc.t = "list"
               THEN PyStr(Join(m_props.areaDesc.v, <<";", " ">>))
               ELSE IF m_props.areaDesc.v = <<>> THEN PyNone
               ELSE PyStr(m_props.areaDesc.v))

====
